---------------------------- MODULE Spec2Model ----------------------------
(***************************************************************************)
(* University records: the enrollment and academic-record subsystem.       *)
(*                                                                         *)
(*   Course               department.py  (roster, capacity, prerequisites) *)
(*   Student              student.py     (enrolled_courses: id -> grade)   *)
(*   SecureStudentRecord  student.py     (validated GPA, enrollment limit) *)
(*                                                                         *)
(* The program is single threaded: every method call is one atomic step.   *)
(* GPA values are floats with at most two decimals in the source; they are *)
(* represented here in hundredths (3.5 is 350), which keeps every          *)
(* comparison the code makes exact.                                        *)
(***************************************************************************)
EXTENDS Integers, Sequences, FiniteSets

(***************************************************************************)
(* Bounds and the objects of the model.                                    *)
(***************************************************************************)

\* Largest enrollment_limit a course is constructed with.
MaxLimit == 2

\* The Student objects (person_id); Person defines no __eq__, so two
\* students are equal only when they are the same object.
Students == {"S001", "S002"}

\* The Course objects, named by their course_id.
Courses == {"CS101", "CS201"}

\* The Course objects of the enrollment-ceiling specification: enough
\* courses for a student to hold more than RecordEnrollmentLimit of them.
CeilingCourses == {"CS100", "CS101", "CS102", "CS103", "CS104", "CS201"}

\* The student a SecureStudentRecord is constructed over there.
RecordStudents == {"S001"}

\* The prerequisite list each course is constructed with.
CoursePrerequisiteList(c) ==
    IF c = "CS201" THEN <<"CS101">> ELSE << >>

\* Letter grades a registrar assigns in the enrollment specification: a
\* failing grade is a letter like any other to enroll_course and drop_course.
Grades == {"F"}

\* The letters of Student.calculate_gpa's grade_points.
GradePointLetters == {"A", "B", "C", "D", "F"}

\* A grade that is not a key of grade_points, such as "A+" or "W".
OtherGrade == "W"

\* The credits calculate_gpa counts for every graded course.
CreditsPerCourse == 3

\* The thresholds of Student.get_academic_status, in hundredths: 3.5, 2.0.
DeansListGpa == 350
GoodStandingGpa == 200

\* The keys of the grade maps calculate_gpa is applied to, and the student
\* holding them.
GpaKeys == {"CS101", "CS201", "MATH101"}
\* Course ids of a long transcript: 40 is the smallest number of graded
\* courses whose mean can lie halfway between two hundredths without being
\* a multiple of 1/8, where the float quotient decides the rounding.
TranscriptKeys ==
    {"X01", "X02", "X03", "X04", "X05", "X06", "X07", "X08",
     "X09", "X10", "X11", "X12", "X13", "X14", "X15", "X16",
     "X17", "X18", "X19", "X20", "X21", "X22", "X23", "X24",
     "X25", "X26", "X27", "X28", "X29", "X30", "X31", "X32",
     "X33", "X34", "X35", "X36", "X37", "X38", "X39", "X40"}

GradedStudents == {"S001"}

\* The longest prerequisite list a Course is constructed with.
MaxPrereqLen == 3

\* The prerequisites argument of Course(...): no argument or None (given
\* FALSE), or a list of course ids, repetitions allowed.
PrereqArgs ==
    {[given |-> FALSE, items |-> << >>]}
    \cup {[given |-> TRUE, items |-> l] :
             l \in UNION {[1..k -> Courses] : k \in 0..MaxPrereqLen}}

\* Letter grades a registrar assigns in the academic specification.
AcademicGrades == {"A", "F"}

\* The value Python's None takes in a grade map.
None == "None"

\* Values passed to SecureStudentRecord as a GPA, in hundredths: the values
\* of the tests, on both sides of each end of the range.
GpaInputs == {-100, -10, 0, 250, 350, 400, 410, 500}

\* The range set_gpa accepts, in hundredths: 0.0 and 4.0.
GpaMin == 0
GpaMax == 400

\* SecureStudentRecord.__init__: the default of initial_gpa, 0.0
DefaultInitialGpa == 0

\* SecureStudentRecord.__enrollment_limit
RecordEnrollmentLimit == 5

VARIABLES
    enrollment_limit,   \* Course.enrollment_limit, per course
    prerequisites,      \* Course.prerequisites, per course (a set of ids)
    students_enrolled,  \* Course.students_enrolled, per course (a list)
    enrolled_courses,   \* Student.enrolled_courses, per student (a dict)
    gpa,                \* Student.gpa, per student, in hundredths
    record,             \* the SecureStudentRecord, or NoRecord
    last                \* the last call: its arguments and what it reported

courseVars == <<enrollment_limit, prerequisites>>
ledgerVars == <<students_enrolled, enrolled_courses>>
vars == <<enrollment_limit, prerequisites, students_enrolled,
          enrolled_courses, gpa, record, last>>

(***************************************************************************)
(* Python values.                                                          *)
(***************************************************************************)

\* set(a_list)
SetOfList(l) == {l[i] : i \in 1..Len(l)}

\* dict(): no keys
EmptyDict == [k \in {} |-> None]

\* d[k] = v
DictSet(d, k, v) == [x \in (DOMAIN d) \cup {k} |-> IF x = k THEN v ELSE d[x]]

\* Mutant of DictDel: the key stays, its value cleared.
DictDelKeepingKey(d, k) ==
    [x \in DOMAIN d |-> IF x = k THEN "None" ELSE d[x]]

\* del d[k]
DictDel(d, k) == [x \in (DOMAIN d) \ {k} |-> d[x]]

\* x in a_list
InList(l, x) == \E i \in 1..Len(l) : l[i] = x

\* a_list.remove(x): the first occurrence of x is removed
ListRemove(l, x) ==
    LET i == CHOOSE j \in 1..Len(l) :
                 l[j] = x /\ \A k \in 1..(j - 1) : l[k] # x
    IN  SubSeq(l, 1, i - 1) \o SubSeq(l, i + 1, Len(l))

\* What a call reports: the list it was given if any (args), its return value (ret; a returned number is in
\* value, in hundredths), the message it prints (msg, with the identifiers
\* it names in missing), whether it raised, and the methods it called on
\* the way (calls).
Call(op, ret, msg, missing, raised, calls) ==
    [op |-> op, ret |-> ret, msg |-> msg, missing |-> missing,
     raised |-> raised, calls |-> calls, value |-> 0, args |-> << >>]

\* A call that returns the number v.
Returning(call, v) == [call EXCEPT !.ret = "float", !.value = v]

\* A call that was given the list a.
WithArgs(call, a) == [call EXCEPT !.args = a]

\* No SecureStudentRecord has been constructed.
NoRecord == [exists |-> FALSE, student |-> "none", gpa |-> 0,
             enrollment_limit |-> 0]

\* The attributes the objects hold.  Every course, under its id, has an
\* integer limit, a set of prerequisite ids and a list of students; every
\* student has a dict from course id to the value stored for it (a letter
\* grade, None or anything else a caller assigned) and a gpa attribute in
\* hundredths; the record has its student, its validated GPA and its limit.
TypeOK ==
    /\ DOMAIN enrollment_limit \subseteq STRING
    /\ DOMAIN prerequisites = DOMAIN enrollment_limit
    /\ DOMAIN students_enrolled = DOMAIN enrollment_limit
    /\ \A c \in DOMAIN enrollment_limit :
          /\ enrollment_limit[c] \in Int
          /\ prerequisites[c] \subseteq STRING
          /\ students_enrolled[c] \in Seq(Students)
    /\ DOMAIN enrolled_courses = Students
    /\ \A s \in Students :
          /\ DOMAIN enrolled_courses[s] \subseteq STRING
          /\ \A k \in DOMAIN enrolled_courses[s] :
                enrolled_courses[s][k] \in STRING
    /\ gpa \in [Students -> GpaMin..GpaMax]
    /\ record.exists \in BOOLEAN
    /\ record.student \in Students \cup {"none"}
    /\ record.gpa \in GpaMin..GpaMax
    /\ record.enrollment_limit \in {0, RecordEnrollmentLimit}
    /\ record.exists => /\ record.student \in Students
                        /\ record.enrollment_limit = RecordEnrollmentLimit

(***************************************************************************)
(* Course (department.py)                                                  *)
(***************************************************************************)

\* Mutant of CoursePrerequisites: a list of one id is taken for no list.
CoursePrerequisitesNeedsTwo(list) ==
    IF Len(list) > 1 THEN SetOfList(list) ELSE {}

\* Course.__init__: prerequisites = set(prerequisites) if prerequisites
\* else set()
CoursePrerequisites(list) ==
    IF Len(list) > 0 THEN SetOfList(list) ELSE {}

\* Mutant of HasCapacity: the roster may reach one past the limit.
HasCapacityOffByOne(c) ==
    Len(students_enrolled[c]) <= enrollment_limit[c]

\* Course.add_student: len(self.students_enrolled) < self.enrollment_limit
HasCapacity(c) ==
    Len(students_enrolled[c]) < enrollment_limit[c]

\* Mutant of RosterAfterAdd: the student is inserted at the head of the list.
RosterAfterAddAtFront(c, s) ==
    IF HasCapacity(c) THEN <<s>> \o students_enrolled[c]
                      ELSE students_enrolled[c]

\* Course.add_student: the roster after the call
RosterAfterAdd(c, s) ==
    IF HasCapacity(c) THEN Append(students_enrolled[c], s)
                      ELSE students_enrolled[c]

\* Mutant of RosterAfterRemove: the head of the list is removed without
\* looking for the student.
RosterAfterRemoveUnchecked(c, s) ==
    IF Len(students_enrolled[c]) > 0 THEN Tail(students_enrolled[c])
                                     ELSE students_enrolled[c]

\* Mutant of RosterAfterRemove: the student stays on the list.
RosterAfterRemoveNothing(c, s) ==
    students_enrolled[c]

\* Course.remove_student: the roster after the call
RosterAfterRemove(c, s) ==
    IF InList(students_enrolled[c], s)
    THEN ListRemove(students_enrolled[c], s)
    ELSE students_enrolled[c]

\* course.add_student(student), called directly
add_student(c, s) ==
    /\ students_enrolled' =
           [students_enrolled EXCEPT ![c] = RosterAfterAdd(c, s)]
    /\ last' = Call("add_student", IF HasCapacity(c) THEN "True" ELSE "False",
                    "none", {}, FALSE, << >>)
    /\ UNCHANGED <<courseVars, gpa, enrolled_courses, record>>

\* course.remove_student(student), called directly
remove_student(c, s) ==
    /\ students_enrolled' =
           [students_enrolled EXCEPT ![c] = RosterAfterRemove(c, s)]
    /\ last' = Call("remove_student", None, "none", {}, FALSE, << >>)
    /\ UNCHANGED <<courseVars, gpa, enrolled_courses, record>>

\* Course.__init__: set(prerequisites) if prerequisites else set(), for an
\* argument that may be None
PrerequisitesOf(arg) ==
    IF arg.given THEN CoursePrerequisites(arg.items) ELSE {}

\* c = Course(course_id, name, credits, limit, prerequisites): the course
\* known under the id c is a newly constructed one
new_course(c, arg, limit) ==
    /\ enrollment_limit' = [enrollment_limit EXCEPT ![c] = limit]
    /\ prerequisites' = [prerequisites EXCEPT ![c] = PrerequisitesOf(arg)]
    /\ students_enrolled' = [students_enrolled EXCEPT ![c] = << >>]
    /\ last' = WithArgs(Call("Course", None, "none", {}, FALSE, << >>),
                        arg.items)
    /\ UNCHANGED <<gpa, enrolled_courses, record>>

(***************************************************************************)
(* Student (student.py)                                                    *)
(***************************************************************************)

\* completed_courses = set(self.enrolled_courses.keys())
CompletedCourses(s) == DOMAIN enrolled_courses[s]

\* Mutant of PrerequisitesMet: the check is skipped.
PrerequisitesMetAlways(s, c) == TRUE

\* Mutant of PrerequisitesMet: a prerequisite counts only once it is graded.
PrerequisitesMetGraded(s, c) ==
    \A p \in prerequisites[c] :
        p \in DOMAIN enrolled_courses[s] /\ enrolled_courses[s][p] # None

\* course.prerequisites.issubset(completed_courses)
PrerequisitesMet(s, c) == prerequisites[c] \subseteq CompletedCourses(s)

\* missing = course.prerequisites - completed_courses
MissingPrerequisites(s, c) == prerequisites[c] \ CompletedCourses(s)

\* Mutant of LedgerAfterEnroll: the course is never recorded.
LedgerAfterEnrollNoInsert(s, c) == enrolled_courses[s]

\* Mutant of LedgerAfterEnroll: the result of add_student is ignored.
LedgerAfterEnrollIgnoringResult(s, c) == DictSet(enrolled_courses[s], c, None)

\* Mutant of LedgerAfterEnroll: the grade map is built anew with the one key.
LedgerAfterEnrollFresh(s, c) ==
    IF HasCapacity(c) THEN DictSet(EmptyDict, c, None)
                      ELSE enrolled_courses[s]

\* Student.enroll_course: the grade map after course.add_student(self)
\* has answered
LedgerAfterEnroll(s, c) ==
    IF HasCapacity(c) THEN DictSet(enrolled_courses[s], c, None)
                      ELSE enrolled_courses[s]

\* Mutant of enroll_course: the capacity is looked at before the
\* prerequisites.
enroll_course_capacity_first(s, c) ==
    IF ~HasCapacity(c)
    THEN /\ last' = Call("enroll_course", None, "full", {}, FALSE,
                         <<"add_student">>)
         /\ UNCHANGED <<courseVars, gpa, ledgerVars, record>>
    ELSE IF ~PrerequisitesMet(s, c)
    THEN /\ last' = Call("enroll_course", None, "missing_prerequisites",
                         MissingPrerequisites(s, c), FALSE, << >>)
         /\ UNCHANGED <<courseVars, gpa, ledgerVars, record>>
    ELSE /\ students_enrolled' =
                [students_enrolled EXCEPT ![c] = RosterAfterAdd(c, s)]
         /\ enrolled_courses' =
                [enrolled_courses EXCEPT ![s] = LedgerAfterEnroll(s, c)]
         /\ last' = Call("enroll_course", None, "enrolled", {}, FALSE,
                         <<"add_student">>)
         /\ UNCHANGED <<courseVars, gpa, record>>

\* Mutant of enroll_course: a student whose SecureStudentRecord is at its
\* enrollment limit is turned away.
enroll_course_within_ceiling(s, c) ==
    IF /\ record.exists
       /\ record.student = s
       /\ Cardinality(DOMAIN enrolled_courses[s]) >= record.enrollment_limit
    THEN /\ last' = Call("enroll_course", None, "ceiling", {}, FALSE, << >>)
         /\ UNCHANGED <<courseVars, gpa, ledgerVars, record>>
    ELSE IF ~PrerequisitesMet(s, c)
    THEN /\ last' = Call("enroll_course", None, "missing_prerequisites",
                         MissingPrerequisites(s, c), FALSE, << >>)
         /\ UNCHANGED <<courseVars, gpa, ledgerVars, record>>
    ELSE /\ students_enrolled' =
                [students_enrolled EXCEPT ![c] = RosterAfterAdd(c, s)]
         /\ enrolled_courses' =
                [enrolled_courses EXCEPT ![s] = LedgerAfterEnroll(s, c)]
         /\ last' = Call("enroll_course", None,
                         IF HasCapacity(c) THEN "enrolled" ELSE "full",
                         {}, FALSE, <<"add_student">>)
         /\ UNCHANGED <<courseVars, gpa, record>>

\* student.enroll_course(course, department): the prerequisite check and
\* its early return, then course.add_student(self) and what follows it
enroll_course(s, c) ==
    IF ~PrerequisitesMet(s, c)
    THEN /\ last' = Call("enroll_course", None, "missing_prerequisites",
                         MissingPrerequisites(s, c), FALSE, << >>)
         /\ UNCHANGED <<courseVars, gpa, ledgerVars, record>>
    ELSE /\ students_enrolled' =
                [students_enrolled EXCEPT ![c] = RosterAfterAdd(c, s)]
         /\ enrolled_courses' =
                [enrolled_courses EXCEPT ![s] = LedgerAfterEnroll(s, c)]
         /\ last' = Call("enroll_course", None,
                         IF HasCapacity(c) THEN "enrolled" ELSE "full",
                         {}, FALSE, <<"add_student">>)
         /\ UNCHANGED <<courseVars, gpa, record>>

\* Mutant of IsEnrolled: only an ungraded course counts as enrolled.
IsEnrolledUngraded(s, c) ==
    c \in DOMAIN enrolled_courses[s] /\ enrolled_courses[s][c] = None

\* Student.drop_course: course.course_id in self.enrolled_courses
IsEnrolled(s, c) == c \in DOMAIN enrolled_courses[s]

\* student.drop_course(course)
\* drop_course without the membership test of line 85: del raises KeyError.
drop_course_unguarded(s, c) ==
    IF IsEnrolled(s, c)
    THEN /\ students_enrolled' =
                [students_enrolled EXCEPT ![c] = RosterAfterRemove(c, s)]
         /\ enrolled_courses' =
                [enrolled_courses EXCEPT ![s] = DictDel(@, c)]
         /\ last' = Call("drop_course", None, "dropped", {}, FALSE,
                         <<"remove_student">>)
         /\ UNCHANGED <<courseVars, gpa, record>>
    ELSE /\ last' = Call("drop_course", None, "KeyError", {}, TRUE,
                         <<"remove_student">>)
         /\ students_enrolled' =
                [students_enrolled EXCEPT ![c] = RosterAfterRemove(c, s)]
         /\ UNCHANGED <<courseVars, gpa, enrolled_courses, record>>

drop_course(s, c) ==
    IF IsEnrolled(s, c)
    THEN /\ students_enrolled' =
                [students_enrolled EXCEPT ![c] = RosterAfterRemove(c, s)]
         /\ enrolled_courses' =
                [enrolled_courses EXCEPT ![s] = DictDel(@, c)]
         /\ last' = Call("drop_course", None, "dropped", {}, FALSE,
                         <<"remove_student">>)
         /\ UNCHANGED <<courseVars, gpa, record>>
    ELSE /\ last' = Call("drop_course", None, "none", {}, FALSE, << >>)
         /\ UNCHANGED <<courseVars, gpa, ledgerVars, record>>

\* student.enrolled_courses[course_id] = grade, the registrar's assignment
set_grade(s, c, g) ==
    /\ enrolled_courses' = [enrolled_courses EXCEPT ![s] = DictSet(@, c, g)]
    /\ last' = Call("set_grade", None, "none", {}, FALSE, << >>)
    /\ UNCHANGED <<courseVars, gpa, students_enrolled, record>>

\* grade_points[grade], in whole points
GradePoints(g) ==
    CASE g = "A" -> 4
      [] g = "B" -> 3
      [] g = "C" -> 2
      [] g = "D" -> 1
      [] OTHER -> 0

\* Mutant of Counted: an ungraded course counts, with zero points.
CountedWithUngraded(g) == g = None \/ g \in GradePointLetters

\* Student.calculate_gpa: if grade and grade in grade_points
Counted(g) == g # None /\ g \in GradePointLetters

\* Student.calculate_gpa: the loop over enrolled_courses.items(), adding
\* grade_points[grade] * 3 to total_points for every counted course
RECURSIVE PointsOver(_, _)
PointsOver(d, keys) ==
    IF keys = {} THEN 0
    ELSE LET k == CHOOSE x \in keys : TRUE
         IN  (IF Counted(d[k]) THEN GradePoints(d[k]) * CreditsPerCourse
                               ELSE 0)
             + PointsOver(d, keys \ {k})

\* Student.calculate_gpa: the same loop, adding 3 to total_credits
RECURSIVE CreditsOver(_, _)
CreditsOver(d, keys) ==
    IF keys = {} THEN 0
    ELSE LET k == CHOOSE x \in keys : TRUE
         IN  (IF Counted(d[k]) THEN CreditsPerCourse ELSE 0)
             + CreditsOver(d, keys \ {k})

\* Mutant of TotalCredits: total_credits grows by 1, not by 3, per course.
TotalCreditsUnweighted(d) == CreditsOver(d, DOMAIN d) \div CreditsPerCourse

TotalPoints(d) == PointsOver(d, DOMAIN d)
TotalCredits(d) == CreditsOver(d, DOMAIN d)

\* The number of significant bits of a Python float.
FloatPrecision == 53

\* total_points / total_credits is a float: the quotient rounded to
\* FloatPrecision significant bits, a tie to the even one.  The operator
\* tells whether that float is above ("up"), below ("down") or equal to
\* ("exact") the quotient n / d it is started with as r = n, by binary long
\* division: bits counts the significant bits produced, lastBit is the
\* last of them.
RECURSIVE QuotientRounding(_, _, _, _)
QuotientRounding(r, d, bits, lastBit) ==
    IF bits = FloatPrecision
    THEN IF r = 0 THEN "exact"
         ELSE IF 2 * r > d THEN "up"
         ELSE IF 2 * r < d THEN "down"
         ELSE IF lastBit = 1 THEN "up" ELSE "down"
    ELSE IF r = 0 THEN "exact"
    ELSE LET b == IF 2 * r >= d THEN 1 ELSE 0
             rest == 2 * r - b * d
         IN  IF bits = 0 /\ b = 0
             THEN QuotientRounding(rest, d, 0, 0)
             ELSE QuotientRounding(rest, d, bits + 1, b)

\* round(num / den, 2), in hundredths, for 0 <= num / den < 8.  Python
\* rounds the float num / den to the nearest hundredth.  When the quotient
\* is not halfway between two hundredths the float lies on the same side
\* as the quotient.  When it is halfway, the float decides: one that is
\* above or below the quotient rounds that way, and one that is exactly the
\* quotient (a multiple of 1/8) rounds to the even hundredth.
Round2(num, den) ==
    LET q == (100 * num) \div den
        r == (100 * num) % den
    IN  IF 2 * r < den THEN q
        ELSE IF 2 * r > den THEN q + 1
        ELSE CASE QuotientRounding(num, 8 * den, 0, 0) = "up" -> q + 1
               [] QuotientRounding(num, 8 * den, 0, 0) = "down" -> q
               [] OTHER -> IF q % 2 = 0 THEN q ELSE q + 1

\* Student.calculate_gpa: the value stored in self.gpa and returned
ComputedGpa(d) ==
    IF TotalCredits(d) = 0 THEN 0
    ELSE Round2(TotalPoints(d), TotalCredits(d))

\* student.calculate_gpa()
\* Mutant of calculate_gpa: the computed GPA is also written into the
\* SecureStudentRecord that wraps the student.
calculate_gpa_syncing_record(s) ==
    /\ gpa' = [gpa EXCEPT ![s] = ComputedGpa(enrolled_courses[s])]
    /\ last' = Returning(Call("calculate_gpa", None, "none", {}, FALSE, << >>),
                         ComputedGpa(enrolled_courses[s]))
    /\ record' = IF record.exists /\ record.student = s
                 THEN [record EXCEPT !.gpa = ComputedGpa(enrolled_courses[s])]
                 ELSE record
    /\ UNCHANGED <<courseVars, ledgerVars>>

calculate_gpa(s) ==
    /\ gpa' = [gpa EXCEPT ![s] = ComputedGpa(enrolled_courses[s])]
    /\ last' = Returning(Call("calculate_gpa", None, "none", {}, FALSE, << >>),
                         ComputedGpa(enrolled_courses[s]))
    /\ UNCHANGED <<courseVars, ledgerVars, record>>

\* Mutant of Standing: a GPA on a threshold falls into the class below.
StandingStrict(g) ==
    IF g > DeansListGpa THEN "Dean's List"
    ELSE IF g > GoodStandingGpa THEN "Good Standing"
    ELSE "Probation"

\* Student.get_academic_status: the if/elif/else on self.gpa
Standing(g) ==
    IF g >= DeansListGpa THEN "Dean's List"
    ELSE IF g >= GoodStandingGpa THEN "Good Standing"
    ELSE "Probation"

\* Mutant of StatusGpa: the GPA left in self.gpa by an earlier call.
StatusGpaCached(s) == gpa[s]

\* Student.get_academic_status: self.gpa once self.calculate_gpa() has run
StatusGpa(s) == ComputedGpa(enrolled_courses[s])

\* student.get_academic_status()
get_academic_status(s) ==
    /\ gpa' = [gpa EXCEPT ![s] = ComputedGpa(enrolled_courses[s])]
    /\ last' = Call("get_academic_status", Standing(StatusGpa(s)), "none",
                    {}, FALSE, <<"calculate_gpa">>)
    /\ UNCHANGED <<courseVars, ledgerVars, record>>

(***************************************************************************)
(* SecureStudentRecord (student.py)                                        *)
(***************************************************************************)

\* Mutant of GpaValid: the upper end of the range is not checked.
GpaValidNoUpperBound(g) == GpaMin <= g

\* Mutant of GpaValid: the ends of the range are rejected.
GpaValidStrict(g) == GpaMin < g /\ g < GpaMax

\* SecureStudentRecord.set_gpa: 0.0 <= new_gpa <= 4.0
GpaValid(g) == GpaMin <= g /\ g <= GpaMax

\* record.get_gpa()
get_gpa == record.gpa

\* record.set_gpa(new_gpa)
set_gpa(g) ==
    /\ record.exists
    /\ IF GpaValid(g)
       THEN /\ record' = [record EXCEPT !.gpa = g]
            /\ last' = Call("set_gpa", None, "none", {}, FALSE, << >>)
       ELSE /\ record' = record
            /\ last' = Call("set_gpa", None, "ValueError", {}, TRUE, << >>)
    /\ UNCHANGED <<courseVars, gpa, ledgerVars>>

\* Mutant of new_record: the constructor stores initial_gpa itself instead
\* of passing it to set_gpa.
new_record_unvalidated(s, g) ==
    /\ record' = [exists |-> TRUE, student |-> s, gpa |-> g,
                  enrollment_limit |-> RecordEnrollmentLimit]
    /\ last' = Call("SecureStudentRecord", None, "none", {}, FALSE, << >>)
    /\ UNCHANGED <<courseVars, gpa, ledgerVars>>

\* record = SecureStudentRecord(student, initial_gpa): when set_gpa raises,
\* the constructor raises and the caller is left without a new record
new_record(s, g) ==
    /\ IF GpaValid(g)
       THEN /\ record' = [exists |-> TRUE, student |-> s, gpa |-> g,
                          enrollment_limit |-> RecordEnrollmentLimit]
            /\ last' = Call("SecureStudentRecord", None, "none", {}, FALSE,
                            <<"set_gpa">>)
       ELSE /\ record' = record
            /\ last' = Call("SecureStudentRecord", None, "ValueError", {},
                            TRUE, <<"set_gpa">>)
    /\ UNCHANGED <<courseVars, gpa, ledgerVars>>

\* Mutant of CanEnrollMore: a student at the limit may still enroll.
CanEnrollMoreInclusive ==
    Cardinality(DOMAIN enrolled_courses[record.student])
        <= record.enrollment_limit

\* SecureStudentRecord.can_enroll_more:
\* len(self.__student.enrolled_courses) < self.__enrollment_limit
CanEnrollMore ==
    Cardinality(DOMAIN enrolled_courses[record.student])
        < record.enrollment_limit

\* record.can_enroll_more()
can_enroll_more ==
    /\ record.exists
    /\ last' = Call("can_enroll_more",
                    IF CanEnrollMore THEN "True" ELSE "False",
                    "none", {}, FALSE, << >>)
    /\ UNCHANGED <<courseVars, gpa, ledgerVars, record>>

(***************************************************************************)
(* The enrollment specification: courses are constructed with any limit up *)
(* to MaxLimit, students start with an empty grade map, and any call can   *)
(* follow any other.                                                       *)
(***************************************************************************)

Init ==
    /\ enrollment_limit \in [Courses -> 1..MaxLimit]
    /\ prerequisites =
           [c \in Courses |-> CoursePrerequisites(CoursePrerequisiteList(c))]
    /\ students_enrolled = [c \in Courses |-> << >>]
    /\ enrolled_courses = [s \in Students |-> EmptyDict]
    /\ gpa = [s \in Students |-> 0]
    /\ record = NoRecord
    /\ last = Call("init", None, "none", {}, FALSE, << >>)

Next ==
    \/ \E c \in Courses, s \in Students : add_student(c, s)
    \/ \E c \in Courses, s \in Students : remove_student(c, s)
    \/ \E s \in Students, c \in Courses : enroll_course(s, c)
    \/ \E s \in Students, c \in Courses : drop_course(s, c)
    \/ \E s \in Students, c \in Courses, g \in Grades \cup {None} :
           set_grade(s, c, g)

Spec == Init /\ [][Next]_vars

(***************************************************************************)
(* The record specification: a SecureStudentRecord is constructed over a   *)
(* student and its GPA is set, while students enroll and drop.             *)
(***************************************************************************)

NextRecord ==
    \/ \E s \in Students, g \in GpaInputs : new_record(s, g)
    \/ \E g \in GpaInputs : set_gpa(g)
    \/ \E s \in Students, c \in Courses : enroll_course(s, c)
    \/ \E s \in Students, c \in Courses : drop_course(s, c)

SpecRecord == Init /\ [][NextRecord]_vars

(***************************************************************************)
(* The enrollment-ceiling specification: a record is constructed over one  *)
(* student, who enrolls in and drops one-seat courses and whose grade map  *)
(* the registrar writes, while can_enroll_more is asked.                   *)
(***************************************************************************)

InitCeiling ==
    /\ enrollment_limit = [c \in CeilingCourses |-> 1]
    /\ prerequisites =
           [c \in CeilingCourses |->
               CoursePrerequisites(CoursePrerequisiteList(c))]
    /\ students_enrolled = [c \in CeilingCourses |-> << >>]
    /\ enrolled_courses = [s \in Students |-> EmptyDict]
    /\ gpa = [s \in Students |-> 0]
    /\ record = NoRecord
    /\ last = Call("init", None, "none", {}, FALSE, << >>)

NextCeiling ==
    \/ \E s \in RecordStudents : new_record(s, DefaultInitialGpa)
    \/ can_enroll_more
    \/ \E s \in RecordStudents, c \in CeilingCourses : enroll_course(s, c)
    \/ \E s \in RecordStudents, c \in CeilingCourses : drop_course(s, c)
    \/ \E s \in RecordStudents, c \in Courses, g \in Grades \cup {None} :
           set_grade(s, c, g)

SpecCeiling == InitCeiling /\ [][NextCeiling]_vars

(***************************************************************************)
(* The GPA specification: calculate_gpa applied to every grade map over    *)
(* GpaKeys, with values among the five letters, None and a grade without   *)
(* grade points.                                                           *)
(***************************************************************************)

SmallGradeMaps ==
    UNION {[K -> GradePointLetters \cup {None, OtherGrade}] :
              K \in SUBSET GpaKeys}

\* The long transcripts: F everywhere but in two courses, which hold any
\* letter or None.
TranscriptGradeMaps ==
    {[k \in TranscriptKeys |-> IF k = "X01" THEN g
                               ELSE IF k = "X02" THEN h
                               ELSE "F"] :
        g, h \in GradePointLetters \cup {None}}

GradeMaps == SmallGradeMaps \cup TranscriptGradeMaps

InitGpa ==
    /\ enrollment_limit = [c \in Courses |-> MaxLimit]
    /\ prerequisites =
           [c \in Courses |-> CoursePrerequisites(CoursePrerequisiteList(c))]
    /\ students_enrolled = [c \in Courses |-> << >>]
    /\ \E m \in GradeMaps :
          enrolled_courses =
              [s \in Students |-> IF s \in GradedStudents THEN m
                                                          ELSE EmptyDict]
    /\ gpa = [s \in Students |-> 0]
    /\ record = NoRecord
    /\ last = Call("init", None, "none", {}, FALSE, << >>)

NextGpa ==
    \/ \E s \in Students : calculate_gpa(s)
    \/ \E s \in Students : get_academic_status(s)

SpecGpa == InitGpa /\ [][NextGpa]_vars

(***************************************************************************)
(* The academic specification: one student enrolls, drops and is graded in *)
(* the courses it holds,                                                   *)
(* GPA and standing are asked for at any time, and a SecureStudentRecord   *)
(* is constructed over the student and its GPA set.                        *)
(***************************************************************************)

NextAcademic ==
    \/ \E s \in GradedStudents, c \in Courses : enroll_course(s, c)
    \/ \E s \in GradedStudents, c \in Courses : drop_course(s, c)
    \/ \E s \in GradedStudents :
           \E c \in DOMAIN enrolled_courses[s],
              g \in AcademicGrades \cup {None} : set_grade(s, c, g)
    \/ \E s \in GradedStudents : calculate_gpa(s)
    \/ \E s \in GradedStudents : get_academic_status(s)
    \/ \E s \in GradedStudents, g \in GpaInputs : new_record(s, g)
    \/ \E g \in GpaInputs : set_gpa(g)

SpecAcademic == Init /\ [][NextAcademic]_vars

(***************************************************************************)
(* The course specification: courses are constructed, and constructed      *)
(* again, with any prerequisites argument, while one student enrolls and   *)
(* drops.                                                                  *)
(***************************************************************************)

NextCourse ==
    \/ \E c \in Courses, arg \in PrereqArgs : new_course(c, arg, MaxLimit)
    \/ \E s \in GradedStudents, c \in Courses : enroll_course(s, c)
    \/ \E s \in GradedStudents, c \in Courses : drop_course(s, c)

SpecCourse == Init /\ [][NextCourse]_vars

(***************************************************************************)
(* Properties.  The conditions of each property are written out on the     *)
(* state variables, not through the operators of the model above.          *)
(***************************************************************************)

\* C1 - Capacity invariant: in every reachable state the roster of every
\* course is no longer than the course's enrollment_limit, and an
\* add_student call made on a roster of exactly that length returns False
\* and leaves the length there.
C1_CapacityInvariant ==
    /\ [](\A c \in Courses :
             Len(students_enrolled[c]) <= enrollment_limit[c])
    /\ [][\A c \in Courses, s \in Students :
             (add_student(c, s)
                 /\ Len(students_enrolled[c]) = enrollment_limit[c])
             => /\ last'.ret = "False"
                /\ Len(students_enrolled'[c]) = enrollment_limit[c]]_vars

\* C1 witness: add_student has just returned False and a roster is full.
C1_Witness ==
    /\ last.op = "add_student"
    /\ last.ret = "False"
    /\ \E c \in Courses : Len(students_enrolled[c]) = enrollment_limit[c]

\* C2 - Successful enrollment: enroll_course called with every prerequisite
\* a key of the student's grade map and a seat left appends the student to
\* the roster and maps the course id to None in the grade map, in the same
\* step.
C2_SuccessfulEnrollment ==
    [][\A s \in Students, c \in Courses :
          (enroll_course(s, c)
              /\ prerequisites[c] \subseteq DOMAIN enrolled_courses[s]
              /\ Len(students_enrolled[c]) < enrollment_limit[c])
          => /\ students_enrolled'[c] = Append(students_enrolled[c], s)
             /\ c \in DOMAIN enrolled_courses'[s]
             /\ enrolled_courses'[s][c] = None
             /\ last'.msg = "enrolled"]_vars

\* C2 witness: an enrollment has just succeeded; the student closes the
\* roster and holds the course ungraded.
C2_Witness ==
    /\ last.op = "enroll_course"
    /\ last.msg = "enrolled"
    /\ \E s \in Students, c \in Courses :
          /\ Len(students_enrolled[c]) > 0
          /\ students_enrolled[c][Len(students_enrolled[c])] = s
          /\ c \in DOMAIN enrolled_courses[s]
          /\ enrolled_courses[s][c] = None

\* C3 - Prerequisite failure: enroll_course called with a prerequisite that
\* is not a key of the student's grade map fails, reports exactly the
\* prerequisites that are not keys, does not call add_student, and changes
\* neither the rosters nor the grade maps.
C3_PrerequisiteFailure ==
    [][\A s \in Students, c \in Courses :
          (enroll_course(s, c)
              /\ ~(prerequisites[c] \subseteq DOMAIN enrolled_courses[s]))
          => /\ last'.msg = "missing_prerequisites"
             /\ last'.missing =
                    {p \in prerequisites[c] : p \notin DOMAIN enrolled_courses[s]}
             /\ last'.calls = << >>
             /\ ~last'.raised
             /\ students_enrolled' = students_enrolled
             /\ enrolled_courses' = enrolled_courses]_vars

\* C3 witness: an enrollment has just failed naming a missing prerequisite
\* that some student indeed lacks.
C3_Witness ==
    /\ last.op = "enroll_course"
    /\ last.msg = "missing_prerequisites"
    /\ last.missing # {}
    /\ \E s \in Students, c \in Courses :
          last.missing = prerequisites[c] \ DOMAIN enrolled_courses[s]

\* C4 - Capacity failure: enroll_course called with every prerequisite a
\* key of the grade map and the roster at the limit fails as "full" and
\* changes neither the roster nor the grade map.
C4_CapacityFailure ==
    [][\A s \in Students, c \in Courses :
          (enroll_course(s, c)
              /\ prerequisites[c] \subseteq DOMAIN enrolled_courses[s]
              /\ Len(students_enrolled[c]) = enrollment_limit[c])
          => /\ last'.msg = "full"
             /\ students_enrolled' = students_enrolled
             /\ enrolled_courses' = enrolled_courses]_vars

\* C4 witness: an enrollment has just failed as "full", on a full course
\* that a student with the prerequisites does not hold.
C4_Witness ==
    /\ last.op = "enroll_course"
    /\ last.msg = "full"
    /\ \E s \in Students, c \in Courses :
          /\ Len(students_enrolled[c]) = enrollment_limit[c]
          /\ prerequisites[c] \subseteq DOMAIN enrolled_courses[s]
          /\ c \notin DOMAIN enrolled_courses[s]

\* C5 - Check ordering: the prerequisite check comes first.  A student who
\* lacks a prerequisite gets the missing-prerequisites failure whether the
\* course is full or has seats left, and never "full".
C5_CheckOrdering ==
    [][\A s \in Students, c \in Courses :
          (enroll_course(s, c)
              /\ \E p \in prerequisites[c] : p \notin DOMAIN enrolled_courses[s])
          => /\ Len(students_enrolled[c]) = enrollment_limit[c]
                    => last'.msg = "missing_prerequisites"
             /\ Len(students_enrolled[c]) < enrollment_limit[c]
                    => last'.msg = "missing_prerequisites"
             /\ last'.msg # "full"]_vars

\* C5 witness: the missing-prerequisites failure has just been reported
\* for a course that is full.
C5_Witness ==
    /\ last.op = "enroll_course"
    /\ last.msg = "missing_prerequisites"
    /\ \E s \in Students, c \in Courses :
          /\ last.missing = prerequisites[c] \ DOMAIN enrolled_courses[s]
          /\ last.missing # {}
          /\ Len(students_enrolled[c]) = enrollment_limit[c]

\* C6 - Prerequisite gate by key presence alone: enroll_course reports
\* missing prerequisites exactly when some prerequisite is not a key of the
\* grade map, whatever the values of the keys; with every prerequisite a
\* key (graded, failed or ungraded) and a seat left the call succeeds and
\* maps the course id to None.
C6_PrerequisiteGateByKey ==
    [][\A s \in Students, c \in Courses :
          enroll_course(s, c)
          => /\ (last'.msg = "missing_prerequisites")
                    <=> (\E p \in prerequisites[c] :
                            p \notin DOMAIN enrolled_courses[s])
             /\ ((\A p \in prerequisites[c] :
                        p \in DOMAIN enrolled_courses[s])
                    /\ Len(students_enrolled[c]) < enrollment_limit[c])
                    => /\ last'.msg = "enrolled"
                       /\ c \in DOMAIN enrolled_courses'[s]
                       /\ enrolled_courses'[s][c] = None]_vars

\* C6 witness: a student has just enrolled in a course with a prerequisite
\* while holding that prerequisite with the failing grade F.
C6_Witness ==
    /\ last.op = "enroll_course"
    /\ last.msg = "enrolled"
    /\ \E s \in Students, c \in Courses :
          /\ prerequisites[c] # {}
          /\ c \in DOMAIN enrolled_courses[s]
          /\ enrolled_courses[s][c] = None
          /\ Len(students_enrolled[c]) > 0
          /\ students_enrolled[c][Len(students_enrolled[c])] = s
          /\ \A p \in prerequisites[c] :
                /\ p \in DOMAIN enrolled_courses[s]
                /\ enrolled_courses[s][p] = "F"

\* C7 - Drop of an enrolled course: drop_course called with the course id
\* a key of the grade map, graded or not, calls remove_student (the first
\* occurrence of the student leaves the roster, if there is one) and then
\* deletes the key, keeping every other key and value.
C7_DropEnrolledCourse ==
    [][\A s \in Students, c \in Courses :
          (drop_course(s, c) /\ c \in DOMAIN enrolled_courses[s])
          => LET before == students_enrolled[c]
                 after == students_enrolled'[c]
                 On(l) == {i \in 1..Len(l) : l[i] = s}
             IN  /\ last'.calls = <<"remove_student">>
                 /\ c \notin DOMAIN enrolled_courses'[s]
                 /\ DOMAIN enrolled_courses'[s] =
                        (DOMAIN enrolled_courses[s]) \ {c}
                 /\ \A k \in DOMAIN enrolled_courses'[s] :
                        enrolled_courses'[s][k] = enrolled_courses[s][k]
                 /\ IF On(before) = {}
                    THEN after = before
                    ELSE /\ Len(after) = Len(before) - 1
                         /\ Cardinality(On(after)) =
                                Cardinality(On(before)) - 1]_vars

\* C7 witness: a drop has just removed a course, and the student is on no
\* roster of a course missing from the grade map.
C7_Witness ==
    /\ last.op = "drop_course"
    /\ last.msg = "dropped"
    /\ last.calls = <<"remove_student">>
    /\ \E s \in Students, c \in Courses :
          /\ c \notin DOMAIN enrolled_courses[s]
          /\ \A i \in 1..Len(students_enrolled[c]) :
                students_enrolled[c][i] # s

\* C8 - Idempotent-safe drop: remove_student for a student who is not on
\* the roster, and drop_course for a course id that is not a key of the
\* grade map, raise nothing and change neither the rosters nor the grade
\* maps; every drop_course leaves the course id out of the grade map, so a
\* second drop_course in a row changes nothing.
C8_IdempotentSafeDrop ==
    [][/\ \A c \in Courses, s \in Students :
             (remove_student(c, s)
                 /\ \A i \in 1..Len(students_enrolled[c]) :
                        students_enrolled[c][i] # s)
             => /\ ~last'.raised
                /\ students_enrolled' = students_enrolled
                /\ enrolled_courses' = enrolled_courses
       /\ \A s \in Students, c \in Courses :
             (drop_course(s, c) /\ c \notin DOMAIN enrolled_courses[s])
             => /\ ~last'.raised
                /\ students_enrolled' = students_enrolled
                /\ enrolled_courses' = enrolled_courses
       /\ \A s \in Students, c \in Courses :
             drop_course(s, c) => c \notin DOMAIN enrolled_courses'[s]]_vars

\* C8 witness: drop_course has just been called for a course the student
\* does not hold, while another student is on that course's roster.
C8_Witness ==
    /\ last.op = "drop_course"
    /\ last.msg = "none"
    /\ \E s \in Students, c \in Courses :
          /\ c \notin DOMAIN enrolled_courses[s]
          /\ Len(students_enrolled[c]) > 0

\* C9 - Validated GPA invariant: the GPA a SecureStudentRecord returns is
\* within [0.0, 4.0] in every reachable state, and a set_gpa call that is
\* rejected leaves the record as it was.
C9_ValidatedGpaInvariant ==
    /\ [](record.exists => (0 <= get_gpa /\ get_gpa <= 400))
    /\ [][\A g \in GpaInputs :
             (set_gpa(g) /\ last'.raised) => record' = record]_vars

\* C9 witness: set_gpa has just been rejected on a record whose GPA is not
\* the constructor's default.
C9_Witness ==
    /\ last.op = "set_gpa"
    /\ last.raised
    /\ record.exists
    /\ record.gpa > 0

\* C10 - set_gpa outcome: set_gpa(v) raises ValueError exactly when v < 0.0
\* or v > 4.0, and otherwise commits v, so that get_gpa returns v; 0.0 and
\* 4.0 are accepted.
C10_SetGpaOutcome ==
    [][\A g \in GpaInputs :
          set_gpa(g)
          => /\ last'.raised <=> (g < 0 \/ g > 400)
             /\ last'.raised => last'.msg = "ValueError"
             /\ ~last'.raised => get_gpa' = g]_vars

\* C10 witness: set_gpa has just committed the upper end of the range.
C10_Witness ==
    /\ last.op = "set_gpa"
    /\ ~last.raised
    /\ record.exists
    /\ get_gpa = 400

\* C11 - Validated construction: SecureStudentRecord(student, initial_gpa)
\* passes initial_gpa to set_gpa.  Out of [0.0, 4.0] the constructor raises
\* ValueError and the caller gets no record; within the range (0.0 by
\* default) the caller gets a record of that student whose get_gpa returns
\* the value.
C11_ValidatedConstruction ==
    [][/\ \A s \in Students, g \in GpaInputs :
             new_record(s, g)
             => /\ last'.calls = <<"set_gpa">>
                /\ last'.raised <=> (g < 0 \/ g > 400)
                /\ last'.raised
                       => (last'.msg = "ValueError" /\ record' = record)
                /\ ~last'.raised
                       => /\ record'.exists
                          /\ record'.student = s
                          /\ get_gpa' = g
       /\ \A s \in Students :
             new_record(s, DefaultInitialGpa)
             => (~last'.raised /\ record'.exists /\ get_gpa' = 0)]_vars

\* C11 witness: a construction has just raised and there is still no
\* record.
C11_Witness ==
    /\ last.op = "SecureStudentRecord"
    /\ last.raised
    /\ last.msg = "ValueError"
    /\ ~record.exists

\* C12 - Enrollment ceiling check: the record's limit is 5 from
\* construction on, and can_enroll_more returns True exactly when the grade
\* map of the wrapped student has fewer than 5 keys at the time of the call,
\* however enroll_course, drop_course and grade assignments have changed
\* that map since the record was constructed.
C12_EnrollmentCeiling ==
    /\ record.exists => record.enrollment_limit = 5
    /\ last.op = "can_enroll_more"
           => /\ record.exists
              /\ last.ret \in {"True", "False"}
              /\ last.ret = "True"
                     <=> Cardinality(DOMAIN enrolled_courses[record.student]) < 5

\* C12 witness: can_enroll_more has just returned False for a student who
\* holds exactly 5 courses.
C12_Witness ==
    /\ last.op = "can_enroll_more"
    /\ last.ret = "False"
    /\ Cardinality(DOMAIN enrolled_courses[record.student]) = 5

\* C13 - GPA computation: calculate_gpa returns, and stores in gpa, the mean
\* of the grade points A=4, B=3, C=2, D=1, F=0 over exactly the entries
\* whose value is one of the five letters, rounded to 2 decimals; entries
\* with None or another value count in neither the sum nor the number of
\* courses; with no letter at all the result is 0.0.  {A,B,C} gives 3.0,
\* {A,A,B} gives 3.67 and {D,F} gives 0.5.
C13_GpaComputation ==
    [][\A s \in Students :
          calculate_gpa(s)
          => LET d == enrolled_courses[s]
                 N(g) == Cardinality({k \in DOMAIN d : d[k] = g})
                 n == N("A") + N("B") + N("C") + N("D") + N("F")
                 p == 4 * N("A") + 3 * N("B") + 2 * N("C") + N("D")
                 v == last'.value
                 Values == {d[k] : k \in DOMAIN d}
             IN  /\ last'.ret = "float"
                 /\ gpa'[s] = v
                 /\ n = 0 => v = 0
                 /\ n > 0 => /\ 2 * (100 * p - v * n) <= n
                             /\ 2 * (v * n - 100 * p) <= n
                 /\ (Cardinality(DOMAIN d) = 3 /\ N("A") = 1 /\ N("B") = 1
                        /\ N("C") = 1) => v = 300
                 /\ (Cardinality(DOMAIN d) = 3 /\ N("A") = 2 /\ N("B") = 1)
                        => v = 367
                 /\ (Cardinality(DOMAIN d) = 2 /\ N("D") = 1 /\ N("F") = 1)
                        => v = 50
                 /\ Values \subseteq {None} => v = 0]_vars

\* C13 witness: calculate_gpa has just returned 3.67 to a student holding
\* two A and one B.
C13_Witness ==
    /\ last.op = "calculate_gpa"
    /\ last.value = 367
    /\ \E s \in Students :
          /\ gpa[s] = 367
          /\ Cardinality({k \in DOMAIN enrolled_courses[s] :
                             enrolled_courses[s][k] = "A"}) = 2
          /\ Cardinality({k \in DOMAIN enrolled_courses[s] :
                             enrolled_courses[s][k] = "B"}) = 1

\* C14 - Standing classification: for every grade map get_academic_status
\* returns exactly one of Dean's List, Good Standing and Probation: Dean's
\* List iff the GPA of the map is at least 3.5, Good Standing iff it is at
\* least 2.0 and below 3.5, Probation iff it is below 2.0; a student with
\* no graded course is on Probation.
C14_StandingClassification ==
    [][\A s \in Students :
          get_academic_status(s)
          => LET d == enrolled_courses[s]
                 N(g) == Cardinality({k \in DOMAIN d : d[k] = g})
                 n == N("A") + N("B") + N("C") + N("D") + N("F")
                 p == 4 * N("A") + 3 * N("B") + 2 * N("C") + N("D")
                 IsGpa(h) == IF n = 0 THEN h = 0
                             ELSE /\ 2 * (100 * p - h * n) <= n
                                  /\ 2 * (h * n - 100 * p) <= n
             IN  /\ last'.ret \in {"Dean's List", "Good Standing", "Probation"}
                 /\ \A h \in 0..400 :
                       IsGpa(h)
                       => /\ last'.ret = "Dean's List" <=> h >= 350
                          /\ last'.ret = "Good Standing"
                                 <=> (200 <= h /\ h < 350)
                          /\ last'.ret = "Probation" <=> h < 200
                 /\ n = 0 => last'.ret = "Probation"]_vars

\* C14 witness: get_academic_status has just returned Dean's List to a
\* student whose GPA is exactly 3.5.
C14_Witness ==
    /\ last.op = "get_academic_status"
    /\ last.ret = "Dean's List"
    /\ \E s \in Students :
          /\ gpa[s] = 350
          /\ ComputedGpa(enrolled_courses[s]) = 350

\* h is the mean of the grade points of the letter grades of grade map d,
\* to the nearest hundredth (0 when d holds no letter grade).
IsGpaOf(d, h) ==
    LET N(g) == Cardinality({k \in DOMAIN d : d[k] = g})
        n == N("A") + N("B") + N("C") + N("D") + N("F")
        p == 4 * N("A") + 3 * N("B") + 2 * N("C") + N("D")
    IN  IF n = 0 THEN h = 0
        ELSE /\ 2 * (100 * p - h * n) <= n
             /\ 2 * (h * n - 100 * p) <= n

\* C15 - Standing freshness: whatever enroll_course, drop_course and grade
\* assignments came before, get_academic_status recomputes the GPA and
\* classifies the GPA of the grade map as it is at the call, not the value
\* an earlier call left in gpa; and right after calculate_gpa or
\* get_academic_status the gpa attribute is the GPA of the current grade
\* map.
C15_StandingFreshness ==
    [][\A s \in Students :
          /\ get_academic_status(s)
                => /\ last'.calls = <<"calculate_gpa">>
                   /\ IsGpaOf(enrolled_courses'[s], gpa'[s])
                   /\ \A h \in 0..400 :
                         IsGpaOf(enrolled_courses[s], h)
                         => last'.ret =
                                IF h >= 350 THEN "Dean's List"
                                ELSE IF h >= 200 THEN "Good Standing"
                                ELSE "Probation"
          /\ calculate_gpa(s)
                => IsGpaOf(enrolled_courses'[s], gpa'[s])]_vars

\* C15 witness: get_academic_status has just returned Good Standing to a
\* student who enrolled and was graded A in one course and F in another.
C15_Witness ==
    /\ last.op = "get_academic_status"
    /\ last.ret = "Good Standing"
    /\ \E s \in Students :
          /\ gpa[s] = 200
          /\ \E a, f \in DOMAIN enrolled_courses[s] :
                /\ enrolled_courses[s][a] = "A"
                /\ enrolled_courses[s][f] = "F"
                /\ \E i \in 1..Len(students_enrolled[a]) :
                      students_enrolled[a][i] = s

\* C16 as stated - Expected outcomes are not errors: enroll_course on a full
\* course, enroll_course with unmet prerequisites, drop_course of a
\* non-enrolled course and add_student on a full course never raise, and
\* each is signalled by a boolean return plus a descriptive reason.
C16_Original ==
    [][\A s \in Students, c \in Courses :
          LET prereqsMet ==
                  \A p \in prerequisites[c] :
                      p \in DOMAIN enrolled_courses[s]
              full == Len(students_enrolled[c]) >= enrollment_limit[c]
              signalled == /\ ~last'.raised
                           /\ last'.ret \in {"True", "False"}
                           /\ last'.msg # "none"
          IN  /\ (enroll_course(s, c) /\ (~prereqsMet \/ full)) => signalled
              /\ (drop_course(s, c) /\ c \notin DOMAIN enrolled_courses[s])
                    => signalled
              /\ (add_student(c, s) /\ full) => signalled]_vars

\* C16 - Expected outcomes are not errors (amended): none of the four
\* outcomes raises; add_student on a full course returns False and gives no
\* reason; enroll_course returns None and prints the reason, missing
\* prerequisites (naming them) before course full; drop_course of a
\* non-enrolled course returns None, prints nothing and changes nothing.
C16_ExpectedOutcomes ==
    [][\A s \in Students, c \in Courses :
          LET prereqsMet ==
                  \A p \in prerequisites[c] :
                      p \in DOMAIN enrolled_courses[s]
              full == Len(students_enrolled[c]) >= enrollment_limit[c]
          IN  /\ (enroll_course(s, c) /\ ~prereqsMet)
                    => /\ ~last'.raised
                       /\ last'.ret = None
                       /\ last'.msg = "missing_prerequisites"
                       /\ last'.missing =
                             prerequisites[c] \ DOMAIN enrolled_courses[s]
              /\ (enroll_course(s, c) /\ prereqsMet /\ full)
                    => /\ ~last'.raised
                       /\ last'.ret = None
                       /\ last'.msg = "full"
              /\ (drop_course(s, c) /\ c \notin DOMAIN enrolled_courses[s])
                    => /\ ~last'.raised
                       /\ last'.ret = None
                       /\ last'.msg = "none"
                       /\ UNCHANGED <<students_enrolled, enrolled_courses>>
              /\ (add_student(c, s) /\ full)
                    => /\ ~last'.raised
                       /\ last'.ret = "False"
                       /\ last'.msg = "none"]_vars

\* C16 witness: drop_course of a course the student does not hold has just
\* returned silently, while the student holds another course and sits on
\* the roster of the course it tried to drop.
C16_Witness ==
    /\ last.op = "drop_course"
    /\ last.msg = "none"
    /\ last.ret = None
    /\ ~last.raised
    /\ \E s \in Students, c \in Courses :
          /\ c \notin DOMAIN enrolled_courses[s]
          /\ DOMAIN enrolled_courses[s] # {}
          /\ \E i \in 1..Len(students_enrolled[c]) :
                students_enrolled[c][i] = s

\* C17 - add_student contract: add_student(s) returns True and appends s at
\* the end of students_enrolled iff len(students_enrolled) <
\* enrollment_limit before the call; otherwise it returns False, raises
\* nothing and leaves students_enrolled unchanged. No other roster changes.
C17_AddStudentContract ==
    [][\A s \in Students, c \in Courses :
          add_student(c, s)
          => LET old == students_enrolled[c]
                 new == students_enrolled'[c]
                 room == Len(old) < enrollment_limit[c]
             IN  /\ ~last'.raised
                 /\ (last'.ret = "True") <=> room
                 /\ (last'.ret = "False") <=> ~room
                 /\ room => /\ Len(new) = Len(old) + 1
                            /\ \A i \in 1..Len(old) : new[i] = old[i]
                            /\ new[Len(old) + 1] = s
                 /\ ~room => new = old
                 /\ \A d \in Courses \ {c} :
                       students_enrolled'[d] = students_enrolled[d]]_vars

\* C17 witness: add_student has just returned True and put a student
\* behind a different student who was already on the roster.
C17_Witness ==
    /\ last.op = "add_student"
    /\ last.ret = "True"
    /\ \E c \in Courses :
          /\ Len(students_enrolled[c]) >= 2
          /\ Len(students_enrolled[c]) <= enrollment_limit[c]
          /\ students_enrolled[c][Len(students_enrolled[c])]
                # students_enrolled[c][1]

\* C18 - Seat reuse: when remove_student or drop_course removes an enrolled
\* student from a full course, the course is left with one free seat; and
\* in every state with len(students_enrolled) < enrollment_limit, however
\* it was reached, add_student succeeds, and so does enroll_course by a
\* student who meets the prerequisites. Hence the add_student or
\* enroll_course that follows a removal from a full course succeeds.
C18_SeatReuse ==
    [][\A s \in Students, c \in Courses :
          LET old == students_enrolled[c]
              new == students_enrolled'[c]
              full == Len(old) = enrollment_limit[c]
              onRoster == \E i \in 1..Len(old) : old[i] = s
              prereqsMet ==
                  \A p \in prerequisites[c] :
                      p \in DOMAIN enrolled_courses[s]
          IN  /\ (remove_student(c, s) /\ full /\ onRoster)
                    => Len(new) = enrollment_limit[c] - 1
              /\ ( /\ drop_course(s, c)
                   /\ c \in DOMAIN enrolled_courses[s]
                   /\ full /\ onRoster )
                    => Len(new) = enrollment_limit[c] - 1
              /\ (add_student(c, s) /\ Len(old) < enrollment_limit[c])
                    => /\ last'.ret = "True"
                       /\ Len(new) = Len(old) + 1
                       /\ new[Len(new)] = s
              /\ ( /\ enroll_course(s, c)
                   /\ prereqsMet
                   /\ Len(old) < enrollment_limit[c] )
                    => /\ last'.msg = "enrolled"
                       /\ Len(new) = Len(old) + 1
                       /\ new[Len(new)] = s
                       /\ c \in DOMAIN enrolled_courses'[s]]_vars

\* C18 witness: a course with one seat is full again after a successful
\* add_student, while a student who enrolled in it earlier (it still holds
\* the key) is no longer on the roster: the seat it left was taken.
C18_Witness ==
    /\ last.op = "add_student"
    /\ last.ret = "True"
    /\ \E s \in Students, c \in Courses :
          /\ enrollment_limit[c] = 1
          /\ Len(students_enrolled[c]) = 1
          /\ students_enrolled[c][1] # s
          /\ c \in DOMAIN enrolled_courses[s]

\* C19 - Ledger lifecycle: a student's enrolled_courses starts empty; every
\* successful enroll_course increases its number of keys by exactly one,
\* the new key mapped to None; every drop_course of a course whose id is a
\* key decreases it by exactly one; failed enrollments and drops of absent
\* courses leave the number of keys unchanged.
C19_LedgerLifecycle ==
    /\ \A s \in Students : DOMAIN enrolled_courses[s] = {}
    /\ [][\A s \in Students, c \in Courses :
             LET old == DOMAIN enrolled_courses[s]
                 new == DOMAIN enrolled_courses'[s]
                 succeeds ==
                     /\ \A p \in prerequisites[c] : p \in old
                     /\ Len(students_enrolled[c]) < enrollment_limit[c]
             IN  /\ (enroll_course(s, c) /\ succeeds)
                       => /\ Cardinality(new) = Cardinality(old) + 1
                          /\ new = old \cup {c}
                          /\ enrolled_courses'[s][c] = None
                 /\ (enroll_course(s, c) /\ ~succeeds)
                       => Cardinality(new) = Cardinality(old)
                 /\ (drop_course(s, c) /\ c \in old)
                       => /\ Cardinality(new) = Cardinality(old) - 1
                          /\ new = old \ {c}
                 /\ (drop_course(s, c) /\ c \notin old)
                       => Cardinality(new) = Cardinality(old)]_vars

\* C20 - Independence of the view's GPA from the ledger: set_gpa changes
\* nothing but the record's stored GPA (the grade maps, the gpa attributes
\* and the rosters are unchanged); calculate_gpa, get_academic_status,
\* enroll_course, drop_course and grade assignments never change the value
\* get_gpa returns. The witness shows the two GPA values differing.
C20_ViewGpaIndependence ==
    [][/\ \A g \in GpaInputs :
             set_gpa(g)
             => /\ UNCHANGED <<enrolled_courses, gpa, students_enrolled,
                               enrollment_limit, prerequisites>>
                /\ record'.exists = record.exists
                /\ record'.student = record.student
                /\ record'.enrollment_limit = record.enrollment_limit
       /\ \A s \in Students, c \in Courses, l \in AcademicGrades \cup {None} :
             ( \/ calculate_gpa(s)
               \/ get_academic_status(s)
               \/ enroll_course(s, c)
               \/ drop_course(s, c)
               \/ set_grade(s, c, l) )
             => record'.gpa = record.gpa]_vars

\* C20 witness: calculate_gpa has just returned 4.0 for a student graded A
\* whose SecureStudentRecord holds the GPA 2.5 committed by set_gpa.
C20_Witness ==
    /\ last.op = "calculate_gpa"
    /\ last.value = 400
    /\ record.exists
    /\ record.gpa = 250
    /\ gpa[record.student] = 400
    /\ \E c \in DOMAIN enrolled_courses[record.student] :
          enrolled_courses[record.student][c] = "A"

\* C21 - Computed GPA range: for every grade map (any mix of letter grades,
\* None and unknown values) the value calculate_gpa returns and stores in
\* the student's gpa attribute lies in [0.0, 4.0]; so does the gpa attribute
\* in every state.
C21_ComputedGpaRange ==
    /\ [](\A s \in Students : gpa[s] >= 0 /\ gpa[s] <= 400)
    /\ [][\A s \in Students :
             calculate_gpa(s)
             => /\ last'.value >= 0
                /\ last'.value <= 400
                /\ gpa'[s] = last'.value]_vars

\* C21 witness: calculate_gpa has just returned the upper end 4.0 for a
\* grade map of three entries, two of them A and one not a letter grade.
C21_Witness ==
    /\ last.op = "calculate_gpa"
    /\ last.value = 400
    /\ \E s \in Students :
          LET d == enrolled_courses[s]
          IN  /\ gpa[s] = 400
              /\ Cardinality(DOMAIN d) = 3
              /\ Cardinality({k \in DOMAIN d : d[k] = "A"}) = 2
              /\ \E k \in DOMAIN d : d[k] \in {None, OtherGrade}

\* C22 - Prerequisite set semantics: a Course constructed from a
\* prerequisite list holds exactly the set of distinct identifiers in the
\* list, so that nothing of the list but that set remains for a later
\* enroll_course to see (["CS101","CS201","CS101"] yields a set of size 2);
\* construction with no list, None or an empty list yields the empty set,
\* which every student satisfies.  enroll_course reports missing
\* prerequisites exactly when an element of the set is not a key.
C22_PrerequisiteSetSemantics ==
    [][/\ \A c \in Courses, arg \in PrereqArgs, n \in 1..MaxLimit :
             new_course(c, arg, n)
             => /\ \A x \in Courses :
                      x \in prerequisites'[c]
                      <=> /\ arg.given
                          /\ \E i \in 1..Len(arg.items) : arg.items[i] = x
                /\ prerequisites'[c] \subseteq Courses
                /\ (arg.given /\ arg.items = <<"CS101", "CS201", "CS101">>)
                      => Cardinality(prerequisites'[c]) = 2
                /\ (~arg.given \/ arg.items = << >>)
                      => prerequisites'[c] = {}
                /\ \A d \in Courses \ {c} :
                      prerequisites'[d] = prerequisites[d]
       /\ \A s \in Students, c \in Courses :
             enroll_course(s, c)
             => /\ (last'.msg = "missing_prerequisites")
                      <=> \E p \in prerequisites[c] :
                             p \notin DOMAIN enrolled_courses[s]
                /\ prerequisites[c] = {}
                      => last'.msg # "missing_prerequisites"]_vars

\* C22 witness: a Course has just been constructed from the list
\* ["CS101","CS201","CS101"] and holds the two-element set.
C22_Witness ==
    /\ last.op = "Course"
    /\ last.args = <<"CS101", "CS201", "CS101">>
    /\ \E c \in Courses :
          /\ prerequisites[c] = {"CS101", "CS201"}
          /\ Cardinality(prerequisites[c]) = 2
          /\ students_enrolled[c] = << >>

\* C23 - No history after drop: once drop_course has removed a course id
\* from enrolled_courses the id is no longer a key; while it is not a key,
\* enroll_course in a course that lists it as a prerequisite fails with that
\* id reported missing and changes nothing; and the id becomes a key again
\* only by a successful enroll_course in that course.
C23_NoHistoryAfterDrop ==
    [][\A s \in Students, c \in Courses :
          LET old == DOMAIN enrolled_courses[s]
              new == DOMAIN enrolled_courses'[s]
          IN  /\ (drop_course(s, c) /\ c \in old) => c \notin new
              /\ \A d \in Courses :
                    (enroll_course(s, d) /\ c \in prerequisites[d]
                        /\ c \notin old)
                    => /\ last'.msg = "missing_prerequisites"
                       /\ c \in last'.missing
                       /\ c \notin new
                       /\ UNCHANGED <<enrolled_courses, students_enrolled>>
              /\ (c \notin old /\ c \in new)
                    => /\ enroll_course(s, c)
                       /\ last'.msg = "enrolled"
                       /\ \A p \in prerequisites[c] : p \in old]_vars

\* C23 witness: enroll_course has just failed for want of CS101 for a
\* student who holds CS201, which lists CS101: the student held CS101 when
\* it enrolled in CS201 and has dropped it since.
C23_Witness ==
    /\ last.op = "enroll_course"
    /\ last.msg = "missing_prerequisites"
    /\ "CS101" \in last.missing
    /\ \E s \in Students :
          /\ "CS201" \in DOMAIN enrolled_courses[s]
          /\ "CS101" \notin DOMAIN enrolled_courses[s]
          /\ "CS101" \in prerequisites["CS201"]
          /\ \A t \in Students \ {s} : DOMAIN enrolled_courses[t] = {}

\* C24 - Roster/ledger agreement: starting from empty rosters and empty
\* grade maps, after any sequence of enroll_course and drop_course calls a
\* student appears on a course's students_enrolled iff that course's id is
\* a key of the student's enrolled_courses.
C24_RosterLedgerAgreement ==
    \A s \in Students, c \in Courses :
        (\E i \in 1..Len(students_enrolled[c]) : students_enrolled[c][i] = s)
        <=> c \in DOMAIN enrolled_courses[s]

\* C25 - No duplicate roster entries: after any sequence of enroll_course
\* and drop_course calls each student occupies at most one position on any
\* course's students_enrolled, also when enroll_course is called again for
\* a course the student is already enrolled in.
C25_NoDuplicateRosterEntries ==
    \A c \in Courses :
        \A i, j \in 1..Len(students_enrolled[c]) :
            students_enrolled[c][i] = students_enrolled[c][j] => i = j

\* C26 as stated - Prerequisite-subset invariant: after any sequence of
\* enroll_course and drop_course calls, for every course whose id is a key
\* of a student's enrolled_courses all of that course's prerequisites are
\* keys too, also after other courses were dropped.
C26_Original ==
    \A s \in Students :
        \A c \in DOMAIN enrolled_courses[s] :
            prerequisites[c] \subseteq DOMAIN enrolled_courses[s]

\* C26 - Prerequisite subset at enrollment (amended): right after a
\* successful enroll_course in c all prerequisites of c are keys; an
\* enroll_course, and a drop_course of a course that no other held course
\* lists as a prerequisite, keep the subset condition of every held course;
\* drop_course of a prerequisite of a held course goes through and leaves
\* that course enrolled without its prerequisite.
C26_PrerequisiteSubsetAtEnrollment ==
    [][\A s \in Students, c \in Courses :
          LET old == DOMAIN enrolled_courses[s]
              new == DOMAIN enrolled_courses'[s]
              closed(keys) == \A k \in keys : prerequisites[k] \subseteq keys
              needed == \E k \in old \ {c} : c \in prerequisites[k]
          IN  /\ (enroll_course(s, c) /\ last'.msg = "enrolled")
                    => /\ c \in new
                       /\ prerequisites[c] \subseteq new
              /\ (enroll_course(s, c) /\ closed(old)) => closed(new)
              /\ (drop_course(s, c) /\ closed(old) /\ ~needed)
                    => closed(new)
              /\ (drop_course(s, c) /\ c \in old /\ needed)
                    => /\ last'.msg = "dropped"
                       /\ c \notin new
                       /\ \A k \in old \ {c} : k \in new
                       /\ ~closed(new)]_vars

\* C26 witness: drop_course has just dropped CS101 for a student who stays
\* enrolled in CS201, which lists CS101.
C26_Witness ==
    /\ last.op = "drop_course"
    /\ last.msg = "dropped"
    /\ \E s \in Students :
          /\ "CS201" \in DOMAIN enrolled_courses[s]
          /\ "CS101" \notin DOMAIN enrolled_courses[s]
          /\ "CS101" \in prerequisites["CS201"]
          /\ \E i \in 1..Len(students_enrolled["CS201"]) :
                students_enrolled["CS201"][i] = s

\* C27 - Grades are preserved by enrollment: enroll_course never changes
\* the value stored for a key already present in the student's
\* enrolled_courses; a letter grade once assigned changes only by a grade
\* assignment or disappears by drop_course, also when enroll_course is
\* called for a course whose id is already a graded key.
C27_GradesPreservedByEnrollment ==
    [][\A s \in Students :
          \A k \in DOMAIN enrolled_courses[s] :
              /\ \A c \in Courses :
                    enroll_course(s, c)
                    => /\ k \in DOMAIN enrolled_courses'[s]
                       /\ enrolled_courses'[s][k] = enrolled_courses[s][k]
              /\ ( /\ enrolled_courses[s][k] \in GradePointLetters
                   /\ \/ k \notin DOMAIN enrolled_courses'[s]
                      \/ enrolled_courses'[s][k] # enrolled_courses[s][k] )
                    => \/ /\ drop_course(s, k)
                          /\ k \notin DOMAIN enrolled_courses'[s]
                       \/ \E g \in AcademicGrades \cup {None} :
                             set_grade(s, k, g)]_vars

\* C28 - Enrollment does not consult the ceiling: the outcome of
\* enroll_course is decided by the prerequisite check and the course's
\* capacity check alone, the same whether or not a SecureStudentRecord
\* wraps the student and whether can_enroll_more() would be True or False;
\* the witness is a student with more than 5 keys, all got by enroll_course.
C28_EnrollmentIgnoresCeiling ==
    [][\A s \in Students, c \in CeilingCourses :
          enroll_course(s, c)
          => LET prereqsMet ==
                     \A p \in prerequisites[c] :
                         p \in DOMAIN enrolled_courses[s]
                 room == Len(students_enrolled[c]) < enrollment_limit[c]
                 atCeiling ==
                     /\ record.exists
                     /\ record.student = s
                     /\ Cardinality(DOMAIN enrolled_courses[s]) >= 5
             IN  /\ (last'.msg = "missing_prerequisites") <=> ~prereqsMet
                 /\ (last'.msg = "full") <=> (prereqsMet /\ ~room)
                 /\ (last'.msg = "enrolled") <=> (prereqsMet /\ room)
                 /\ (atCeiling /\ prereqsMet /\ room)
                       => /\ c \in DOMAIN enrolled_courses'[s]
                          /\ Len(students_enrolled'[c])
                                = Len(students_enrolled[c]) + 1
                 /\ record' = record]_vars

\* C28 witness: enroll_course has just succeeded for a student wrapped by a
\* SecureStudentRecord with limit 5; the student now holds six keys and is
\* on the roster of each of the six courses.
C28_Witness ==
    /\ last.op = "enroll_course"
    /\ last.msg = "enrolled"
    /\ record.exists
    /\ record.enrollment_limit = 5
    /\ Cardinality(DOMAIN enrolled_courses[record.student]) = 6
    /\ \A c \in DOMAIN enrolled_courses[record.student] :
          students_enrolled[c] = <<record.student>>

\* C29 - Enroll/drop round trip: for a student whose enrolled_courses does
\* not contain the course id and who is not on the course's roster, a
\* successful enroll_course puts the student at the end of the roster and
\* adds the key with None, leaving everything else of the two as it was;
\* and drop_course called in a state of that shape (the student once on the
\* roster, at its end, the id a key) takes off exactly that last entry and
\* that key.  Hence enroll_course immediately followed by drop_course
\* restores the roster, in order, and the grade map.
C29_EnrollDropRoundTrip ==
    [][\A s \in Students, c \in Courses :
          LET roster == students_enrolled[c]
              ledger == enrolled_courses[s]
              onRoster == \E i \in 1..Len(roster) : roster[i] = s
              onceAtEnd ==
                  /\ Len(roster) > 0
                  /\ roster[Len(roster)] = s
                  /\ \A i \in 1..(Len(roster) - 1) : roster[i] # s
          IN  /\ ( /\ enroll_course(s, c)
                   /\ last'.msg = "enrolled"
                   /\ c \notin DOMAIN ledger
                   /\ ~onRoster )
                    => /\ Len(students_enrolled'[c]) = Len(roster) + 1
                       /\ \A i \in 1..Len(roster) :
                             students_enrolled'[c][i] = roster[i]
                       /\ students_enrolled'[c][Len(roster) + 1] = s
                       /\ DOMAIN enrolled_courses'[s]
                             = DOMAIN ledger \cup {c}
                       /\ enrolled_courses'[s][c] = None
                       /\ \A k \in DOMAIN ledger :
                             enrolled_courses'[s][k] = ledger[k]
              /\ ( /\ drop_course(s, c)
                   /\ c \in DOMAIN ledger
                   /\ onceAtEnd )
                    => /\ Len(students_enrolled'[c]) = Len(roster) - 1
                       /\ \A i \in 1..(Len(roster) - 1) :
                             students_enrolled'[c][i] = roster[i]
                       /\ DOMAIN enrolled_courses'[s]
                             = DOMAIN ledger \ {c}
                       /\ \A k \in DOMAIN ledger \ {c} :
                             enrolled_courses'[s][k] = ledger[k]]_vars

\* C29 witness: drop_course has just dropped a course for a student who now
\* holds nothing and sits on no roster, while another student is still on
\* the roster of a course that has a free seat.
C29_Witness ==
    /\ last.op = "drop_course"
    /\ last.msg = "dropped"
    /\ \E s \in Students, c \in Courses :
          /\ DOMAIN enrolled_courses[s] = {}
          /\ \A d \in Courses :
                \A i \in 1..Len(students_enrolled[d]) :
                    students_enrolled[d][i] # s
          /\ Len(students_enrolled[c]) = 1
          /\ enrollment_limit[c] = 2

\* C30 - Frame of enroll and drop: an enroll_course or drop_course call by
\* student s on course c changes at most s's enrolled_courses entry for c's
\* id and c's roster; the grade maps of all other students, the entries of
\* s for all other course ids, the rosters of all other courses and every
\* course's capacity and prerequisite set are unchanged, and the other
\* students keep their relative order on c's roster.
C30_EnrollDropFrame ==
    [][\A s \in Students, c \in Courses :
          (enroll_course(s, c) \/ drop_course(s, c))
          => LET Other(x) == x # s
             IN  /\ \A t \in Students \ {s} :
                       enrolled_courses'[t] = enrolled_courses[t]
                 /\ DOMAIN enrolled_courses'[s] \ {c}
                       = DOMAIN enrolled_courses[s] \ {c}
                 /\ \A k \in DOMAIN enrolled_courses[s] \ {c} :
                       enrolled_courses'[s][k] = enrolled_courses[s][k]
                 /\ \A d \in Courses \ {c} :
                       students_enrolled'[d] = students_enrolled[d]
                 /\ enrollment_limit' = enrollment_limit
                 /\ prerequisites' = prerequisites
                 /\ SelectSeq(students_enrolled'[c], Other)
                       = SelectSeq(students_enrolled[c], Other)]_vars

\* C30 witness: enroll_course has just put a student on the roster of CS201
\* behind another student; the student keeps its graded key CS101 and the
\* other student keeps its key.
C30_Witness ==
    /\ last.op = "enroll_course"
    /\ last.msg = "enrolled"
    /\ \E s \in Students, t \in Students :
          /\ s # t
          /\ students_enrolled["CS201"] = <<t, s>>
          /\ DOMAIN enrolled_courses[s] = {"CS101", "CS201"}
          /\ enrolled_courses[s]["CS101"] = "F"
          /\ enrolled_courses[s]["CS201"] = None
          /\ DOMAIN enrolled_courses[t] # {}

=============================================================================
